---- MODULE Spec2Model ----
(***************************************************************************)
(* Model of zfmrf/zfmrf_subject.py: the gating copy (copyGatingToStudy),   *)
(* the spectra locator and copy (_findSpectraInSAGE, copySpectraToStudy),  *)
(* the completeness check (getSpectraPDF_dict, isSpectraComplete) and the  *)
(* batch driver (zfmrf_specific_actions).                                  *)
(*                                                                         *)
(* Strings are sequences of one-character strings, so that split('_'),     *)
(* slicing, startswith/endswith, `in` and strptime are computed on the     *)
(* characters as Python computes them.                                     *)
(***************************************************************************)
EXTENDS Integers, Sequences, FiniteSets, TLC

VARIABLES
    config,      \* MIResearch_config parameters read in __init__
    session,     \* the subject's tags and exam times (read only)
    gatingDir,   \* <physiology_data_dir>/<station>/gating: isdir and os.listdir
    physDir,     \* content of getPhysiologicalDataDir()
    physDir0,    \* its content when copyGatingToStudy was called
    gPc,         \* position in copyGatingToStudy
    gIdx,        \* index of iFile in gatingFiles
    c0,          \* the running count of copyGatingToStudy
    gAttempted,  \* files handed to shutil.copy2 in this call
    gSkipped,    \* files logged "Could not parse date" in this call
    gRet,        \* value returned by copyGatingToStudy
    gExc,        \* exception that left copyGatingToStudy
    sage,        \* the spectra archive: os.listdir of the root, its study directories, the UID scan
    spectraDir,  \* content of getSpectraDir()
    spectraDir0, \* its content when copySpectraToStudy was called
    FORCE,       \* argument of copySpectraToStudy
    sPc,         \* position in copySpectraToStudy
    loc,         \* what _findSpectraInSAGE did and returned
    sRet,        \* value returned by copySpectraToStudy
    sExc,        \* exception that left copySpectraToStudy
    cPc,         \* position in isSpectraComplete
    cRet,        \* value returned by isSpectraComplete
    cExc,        \* exception that left isSpectraComplete
    args,        \* command line of zfmrf_specific_actions
    subjList,    \* the subjects of the batch
    bPc,         \* position in zfmrf_specific_actions
    bIdx,        \* index of iSubj in subjList
    bCalled,     \* subjects whose copy method the batch has called
    subjects,    \* two subjects reconciled side by side: each one's tags and position
    physDirs,    \* content of each subject's getPhysiologicalDataDir()
    spectraDirs, \* content of each subject's getSpectraDir()
    overlapped   \* a subject took a step while the other one was under way

gatingVars == <<gatingDir, physDir, physDir0, gPc, gIdx, c0, gAttempted, gSkipped, gRet, gExc>>
spectraVars == <<sage, spectraDir, spectraDir0, FORCE, sPc, loc, sRet, sExc>>
checkVars == <<cPc, cRet, cExc>>
batchVars == <<args, subjList, bPc, bIdx, bCalled>>
concVars == <<subjects, physDirs, spectraDirs, overlapped>>
vars == <<config, session, gatingVars, spectraVars, checkVars, batchVars, concVars>>

\* ---------------------------------------------------------------- bounds
MaxFiles == 2

\* ---------------------------------------------------------------- strings
\* Python values are sequences of characters; None, a value not yet set, and
\* the kinds of a configured directory are one-element sequences that no
\* character string equals.
None == <<"None">>
Unset == <<"unset">>
NotADir == <<"notdir">>
ADir == <<"dir">>
NoExc == "none"

DigitChars == <<"0", "1", "2", "3", "4", "5", "6", "7", "8", "9">>

\* str(n) of an integer 0..9: the integers the operations return and count
PyInt(n) == <<DigitChars[n + 1]>>

Digits == {"0", "1", "2", "3", "4", "5", "6", "7", "8", "9"}

DigitVal ==
    ("0" :> 0) @@ ("1" :> 1) @@ ("2" :> 2) @@ ("3" :> 3) @@ ("4" :> 4) @@
    ("5" :> 5) @@ ("6" :> 6) @@ ("7" :> 7) @@ ("8" :> 8) @@ ("9" :> 9)

IsDigits(s) == \A i \in 1..Len(s) : s[i] \in Digits

RECURSIVE Num(_)
Num(s) == IF s = <<>> THEN 0 ELSE 10 * Num(SubSeq(s, 1, Len(s) - 1)) + DigitVal[s[Len(s)]]

Min(a, b) == IF a < b THEN a ELSE b
Max(a, b) == IF a < b THEN b ELSE a

\* s[:n]
Prefix(s, n) == SubSeq(s, 1, Min(n, Len(s)))
\* s[-n:]
Suffix(s, n) == SubSeq(s, Max(1, Len(s) - n + 1), Len(s))

startswith(s, p) == Len(s) >= Len(p) /\ SubSeq(s, 1, Len(p)) = p
endswith(s, p) == Len(s) >= Len(p) /\ SubSeq(s, Len(s) - Len(p) + 1, Len(s)) = p
\* p in s
Contains(s, p) == \E i \in 0..(Len(s) - Len(p)) : SubSeq(s, i + 1, i + Len(p)) = p

RECURSIVE SplitFrom(_, _, _)
SplitFrom(s, cur, acc) ==
    IF s = <<>> THEN Append(acc, cur)
    ELSE IF Head(s) = "_" THEN SplitFrom(Tail(s), <<>>, Append(acc, cur))
    ELSE SplitFrom(Tail(s), Append(cur, Head(s)), acc)

\* iFile.split('_')
split(s) == SplitFrom(s, <<>>, <<>>)

\* Python list indexing with a possibly negative index k: the 1-based position,
\* or 0 where Python raises IndexError.
PyPos(parts, k) ==
    IF k >= 0 THEN (IF k < Len(parts) THEN k + 1 ELSE 0)
    ELSE (IF Len(parts) + k >= 0 THEN Len(parts) + k + 1 ELSE 0)

\* ---------------------------------------------------------------- datetime
IsLeap(y) == (y % 4 = 0 /\ y % 100 # 0) \/ y % 400 = 0

DaysInMonth(y, m) ==
    IF m = 2 THEN (IF IsLeap(y) THEN 29 ELSE 28)
    ELSE IF m \in {4, 6, 9, 11} THEN 30 ELSE 31

ParseFail == [ok |-> FALSE, t |-> <<>>]

\* datetime(Y, m, d, H, M, S) from six two/four digit fields; ValueError when a
\* field is out of range.
MakeDatetime(Y, m, d, H, M, S) ==
    IF /\ Y >= 1 /\ m \in 1..12 /\ d >= 1 /\ d <= DaysInMonth(Y, m)
       /\ H <= 23 /\ M <= 59 /\ S <= 59
    THEN [ok |-> TRUE, t |-> <<Y, m, d, H, M, S>>]
    ELSE ParseFail

\* datetime.datetime.strptime(s, '%m%d%Y%H%M%S').  A character that is not a
\* digit matches no directive; more than 14 digits leave unconverted data;
\* 14 digits are read with every field at full width.  (Fewer than 14 digits
\* can match with one-digit fields: no name of GatingNames builds such a string.)
strptime_mdY(s) ==
    IF ~IsDigits(s) \/ Len(s) # 14 THEN ParseFail
    ELSE MakeDatetime(Num(SubSeq(s, 5, 8)), Num(SubSeq(s, 1, 2)), Num(SubSeq(s, 3, 4)),
                      Num(SubSeq(s, 9, 10)), Num(SubSeq(s, 11, 12)), Num(SubSeq(s, 13, 14)))

\* datetime.datetime.strptime(s, '%Y%m%d%H%M%S')
strptime_Ymd(s) ==
    IF ~IsDigits(s) \/ Len(s) # 14 THEN ParseFail
    ELSE MakeDatetime(Num(SubSeq(s, 1, 4)), Num(SubSeq(s, 5, 6)), Num(SubSeq(s, 7, 8)),
                      Num(SubSeq(s, 9, 10)), Num(SubSeq(s, 11, 12)), Num(SubSeq(s, 13, 14)))

RECURSIVE LexLess(_, _)
LexLess(a, b) ==
    IF a = <<>> \/ b = <<>> THEN FALSE
    ELSE IF Head(a) # Head(b) THEN Head(a) < Head(b)
    ELSE LexLess(Tail(a), Tail(b))

\* datetime a < datetime b
DtLess(a, b) == LexLess(a, b)

\* ---------------------------------------------------------------- gating: pure part
\* Lines 196-207: the timestamp of one gating file name.
\* kind is "IndexError" where an index of parts is out of range (the exception
\* leaves the loop: only ValueError is caught), "ValueError" where strptime
\* fails (logged, continue), "ok" otherwise.
ParseGatingFile(iFile) ==
    LET parts == split(iFile)
        isSPU == startswith(iFile, <<"S", "P", "U">>)
        p == IF isSPU THEN PyPos(parts, 1) ELSE PyPos(parts, -4)
        pM == PyPos(parts, -3)
        pS == PyPos(parts, -2)
    IN  IF p = 0 \/ pM = 0 \/ pS = 0 THEN [kind |-> "IndexError", t |-> <<>>]
        ELSE LET dos == Prefix(parts[p], 8)
                 HH == Suffix(parts[p], 2)
                 r == strptime_mdY(dos \o HH \o parts[pM] \o parts[pS])
             IN  IF r.ok THEN [kind |-> "ok", t |-> r.t]
                 ELSE [kind |-> "ValueError", t |-> <<>>]

InWindow_inclusive(fileDate, t1, t2) == ~DtLess(t2, fileDate) /\ ~DtLess(fileDate, t1)

\* Line 208: (fileDate < t2) and (fileDate > t1)
InWindow(fileDate, t1, t2) == DtLess(fileDate, t2) /\ DtLess(t1, fileDate)

GatingReturnValue_count(count) == PyInt(count)

\* Line 212: return 0
GatingReturnValue(count) == PyInt(0)

\* Lines 188-192: t1, t2 from StudyDate and the exam start and end times
WindowStart(s) == strptime_Ymd(s.StudyDate \o s.tStart)
WindowEnd(s) == strptime_Ymd(s.StudyDate \o s.tEnd)

\* ---------------------------------------------------------------- gating: inputs
U == <<"_">>
SPU == <<"S", "P", "U">>
ECG == <<"E", "C", "G">>
D0615 == <<"0", "6", "1", "5", "2", "0", "2", "3">>
D0616 == <<"0", "6", "1", "6", "2", "0", "2", "3">>
Y0615 == <<"2", "0", "2", "3", "0", "6", "1", "5">>
Ext == <<"x">>

Stamp(h1, h2, m1, m2) == <<h1, h2>> \o U \o <<m1, m2>> \o U \o <<"0", "0">> \o U \o Ext

\* SPU_0615202309_00_00_x : 15 June 2023 09:00:00
F_SPU_in == SPU \o U \o D0615 \o Stamp("0", "9", "0", "0")
\* ECG_0615202309_30_00_x : 15 June 2023 09:30:00
F_ECG_in == ECG \o U \o D0615 \o Stamp("0", "9", "3", "0")
\* ECG_0615202308_30_00_x : 15 June 2023 08:30:00
F_atStart == ECG \o U \o D0615 \o Stamp("0", "8", "3", "0")
\* SPU_0615202310_00_00_x : 15 June 2023 10:00:00
F_atEnd == SPU \o U \o D0615 \o Stamp("1", "0", "0", "0")
\* ECG_0616202309_00_00_x : 16 June 2023 09:00:00
F_nextDay == ECG \o U \o D0616 \o Stamp("0", "9", "0", "0")
\* SPU_20230615_090000_x : year first, no strptime match
F_yearFirst == SPU \o U \o Y0615 \o U \o <<"0", "9", "0", "0", "0", "0">> \o U \o Ext
\* readme : one part
F_onePart == <<"r", "e", "a", "d", "m", "e">>
\* SPU_0615202309 : two parts
F_twoParts == SPU \o U \o D0615 \o <<"0", "9">>

GatingNames ==
    {F_SPU_in, F_ECG_in, F_atStart, F_atEnd, F_nextDay, F_yearFirst, F_onePart, F_twoParts}

\* os.listdir: distinct names in an arbitrary order
Listings(names, n) ==
    {l \in UNION {[1..k -> names] : k \in 0..n} :
        \A i, j \in 1..Len(l) : i # j => l[i] # l[j]}

GoodTimes == [StudyDate |-> Y0615,
              tStart |-> <<"0", "8", "3", "0", "0", "0">>,
              tEnd |-> <<"1", "0", "0", "0", "0", "0">>]
\* an exam whose stored start time is not a clock time
BadTimes == [StudyDate |-> Y0615,
             tStart |-> <<"n", "a", "n">>,
             tEnd |-> <<"1", "0", "0", "0", "0", "0">>]

GatingInputs ==
    [physiology_data_dir : {None, NotADir, ADir},
     gatingIsDir : BOOLEAN,
     gatingFiles : Listings(GatingNames, MaxFiles),
     times : {GoodTimes, BadTimes},
     physDir : {{}, {F_nextDay}}]

\* the inputs that matter on each path: a missing setting has no gating
\* directory behind it, an unreadable gating directory has no listing
GatingInputOk(in) ==
    /\ in.physiology_data_dir # ADir => ~in.gatingIsDir
    /\ ~in.gatingIsDir => in.gatingFiles = <<>>
    /\ (~in.gatingIsDir \/ in.times = BadTimes) => in.physDir = {}
    /\ in.times = BadTimes => Len(in.gatingFiles) <= 1

\* ---------------------------------------------------------------- gating: actions
Files == gatingDir.files

\* Lines 174-194: the settings checks, the scan window, os.listdir
GatingChecks ==
    /\ gPc = "call"
    /\ IF \/ config.physiology_data_dir = None
          \/ config.physiology_data_dir = NotADir
          \/ ~gatingDir.isdir
       THEN /\ gPc' = "returned"
            /\ gRet' = None
            /\ UNCHANGED <<gIdx, c0, gExc>>
       ELSE IF ~WindowStart(session).ok \/ ~WindowEnd(session).ok
       THEN /\ gPc' = "raised"
            /\ gExc' = "ValueError"
            /\ UNCHANGED <<gIdx, c0, gRet>>
       ELSE /\ gPc' = "loop"
            /\ gIdx' = 1
            /\ c0' = 0
            /\ UNCHANGED <<gRet, gExc>>
    /\ UNCHANGED <<concVars, config, session, spectraVars, checkVars, batchVars,
                   gatingDir, physDir, physDir0, gAttempted, gSkipped>>

\* Lines 195-210: one iteration of `for iFile in gatingFiles`
GatingFile ==
    /\ gPc = "loop"
    /\ gIdx <= Len(Files)
    /\ LET iFile == Files[gIdx]
           r == ParseGatingFile(iFile)
       IN  CASE r.kind = "IndexError" ->
                  /\ gPc' = "raised"
                  /\ gExc' = "IndexError"
                  /\ UNCHANGED <<gIdx, c0, gAttempted, gSkipped, physDir>>
             [] r.kind = "ValueError" ->
                  /\ gSkipped' = gSkipped \cup {iFile}
                  /\ gIdx' = gIdx + 1
                  /\ UNCHANGED <<gPc, gExc, c0, gAttempted, physDir>>
             [] /\ r.kind = "ok"
                /\ ~InWindow(r.t, WindowStart(session).t, WindowEnd(session).t) ->
                  /\ gIdx' = gIdx + 1
                  /\ UNCHANGED <<gPc, gExc, c0, gAttempted, gSkipped, physDir>>
             [] /\ r.kind = "ok"
                /\ InWindow(r.t, WindowStart(session).t, WindowEnd(session).t) ->
                  /\ gAttempted' = gAttempted \cup {iFile}
                  /\ UNCHANGED gSkipped
                  /\ \E copied \in BOOLEAN :
                        IF copied
                        THEN /\ physDir' = physDir \cup {iFile}
                             /\ c0' = c0 + 1
                             /\ gIdx' = gIdx + 1
                             /\ UNCHANGED <<gPc, gExc>>
                        ELSE \* shutil.copy2 raises (OSError): nothing catches it
                             /\ gPc' = "raised"
                             /\ gExc' = "OSError"
                             /\ UNCHANGED <<physDir, c0, gIdx>>
    /\ UNCHANGED <<concVars, config, session, spectraVars, checkVars, batchVars,
                   gatingDir, physDir0, gRet>>

\* Lines 211-212: log the count, return
GatingEnd ==
    /\ gPc = "loop"
    /\ gIdx > Len(Files)
    /\ gPc' = "returned"
    /\ gRet' = GatingReturnValue(c0)
    /\ UNCHANGED <<concVars, config, session, spectraVars, checkVars, batchVars,
                   gatingDir, physDir, physDir0, gIdx, c0, gAttempted, gSkipped, gExc>>

\* ---------------------------------------------------------------- spectra: pure part
EmptyTree == [n \in {} |-> {}]

\* len(os.listdir(self.getSpectraDir())) > 0
hasSpectra(tree) == DOMAIN tree # {}

\* os.path.join(iDir, studyID), relative to the archive root
Join(a, b) == a \o <<"/">> \o b

\* Lines 231-233: the study identifier phase 1 looks for
EffectiveStudyID(s) == IF s.StudyID = <<"0">> THEN s.ScannerStudyID ELSE s.StudyID

\* Lines 236-243: the loop over os.listdir(self.sage_data_dir).  With
\* sage_data_dir None, os.listdir(None) lists the working directory and
\* os.path.join(None, iDir, studyID) raises TypeError.
RECURSIVE Phase1(_, _, _, _, _)
Phase1(root, list, dirs, patID, studyID) ==
    IF list = <<>> THEN [kind |-> "miss", dir |-> None]
    ELSE IF ~Contains(Head(list), patID) THEN Phase1(root, Tail(list), dirs, patID, studyID)
    ELSE IF root = None THEN [kind |-> "TypeError", dir |-> None]
    ELSE IF Join(Head(list), studyID) \in dirs
         THEN [kind |-> "hit", dir |-> Join(Head(list), studyID)]
    ELSE Phase1(root, Tail(list), dirs, patID, studyID)

\* Lines 250-264: the scan of every DICOM file of the archive for
\* StudyInstanceUID.  spydcmtk is not part of this repository: the study it
\* matches (uidDir, None for no match) and whether its top directory is still
\* a directory are inputs, and so is whether setFromDirectory raises when it is
\* handed a root of None (scanRaises).
Phase2(sg) ==
    IF sg.scanRaises
    THEN [out |-> "raise", exc |-> "LibraryError", dir |-> None, phase2 |-> TRUE]
    ELSE IF sg.uidDir # None /\ sg.uidIsDir
    THEN [out |-> "return", exc |-> NoExc, dir |-> sg.uidDir, phase2 |-> TRUE]
    ELSE [out |-> "return", exc |-> NoExc, dir |-> None, phase2 |-> TRUE]

findSpectraInSAGE_uidFirst(cfg, s, sg) ==
    LET p1 == IF s.PatientID # None /\ EffectiveStudyID(s) # None
              THEN Phase1(cfg.sage_data_dir, sg.list, sg.dirs, s.PatientID, EffectiveStudyID(s))
              ELSE [kind |-> "miss", dir |-> None]
        p2 == Phase2(sg)
    IN  IF p2.out = "return" /\ p2.dir # None THEN p2
        ELSE IF p1.kind = "TypeError"
        THEN [out |-> "raise", exc |-> "TypeError", dir |-> None, phase2 |-> TRUE]
        ELSE IF p1.kind = "hit"
        THEN [out |-> "return", exc |-> NoExc, dir |-> p1.dir, phase2 |-> TRUE]
        ELSE p2

\* Lines 226-264: _findSpectraInSAGE
findSpectraInSAGE(cfg, s, sg) ==
    LET p1 == IF s.PatientID # None /\ EffectiveStudyID(s) # None
              THEN Phase1(cfg.sage_data_dir, sg.list, sg.dirs, s.PatientID, EffectiveStudyID(s))
              ELSE [kind |-> "miss", dir |-> None]
    IN  IF p1.kind = "TypeError"
        THEN [out |-> "raise", exc |-> "TypeError", dir |-> None, phase2 |-> FALSE]
        ELSE IF p1.kind = "hit"
        THEN [out |-> "return", exc |-> NoExc, dir |-> p1.dir, phase2 |-> FALSE]
        ELSE Phase2(sg)

SkipCopy_forced(force, tree) == force /\ hasSpectra(tree)

\* Line 278: (not FORCE) and self.hasSpectra()
SkipCopy(force, tree) == ~force /\ hasSpectra(tree)

SpectraReturnValue_zero(sageDir) == PyInt(0)

\* Lines 283-287: 0 after the copy, 1 when the locator returned None
SpectraReturnValue(sageDir) == IF sageDir # None THEN PyInt(0) ELSE PyInt(1)

\* shutil.copytree(src, dst, dirs_exist_ok=True): directories are merged, files
\* overwritten.  (A name is a directory on both sides or a file on both sides
\* in every tree of the model, so no copy meets a name of the other kind.)
copytree(src, dst) ==
    [n \in DOMAIN src \cup DOMAIN dst |->
        IF n \notin DOMAIN src THEN dst[n]
        ELSE IF n \notin DOMAIN dst THEN src[n]
        ELSE [kind |-> src[n].kind, names |-> src[n].names \cup dst[n].names]]

\* ---------------------------------------------------------------- spectra: inputs
PAT1 == <<"P", "A", "T", "1">>
E_PAT1 == <<"_", "P", "A", "T", "1">>
E_PAT12 == <<"P", "A", "T", "1", "2">>
E_misc == <<"m", "i", "s", "c">>
S5 == <<"S", "5">>
S7 == <<"S", "7">>
UidDir == <<"d", "c", "m", "/", "e", "7">>

N1 == <<"1">>
N2 == <<"2">>
Notes == <<"n", "o", "t", "e", "s">>
P1PDF == <<"P", "1", ".", "7", ".", "P", "D", "F">>
P2PDF == <<"P", "2", ".", "7", ".", "P", "D", "F">>
XDat == <<"x", ".", "d", "a", "t">>

Dir(names) == [kind |-> "dir", names |-> names]
File == [kind |-> "file", names |-> {}]

TreeComplete == (N1 :> Dir({P1PDF})) @@ (N2 :> Dir({P2PDF, XDat}))
TreeIncomplete == (N1 :> Dir({P1PDF})) @@ (N2 :> Dir({XDat}))
TreeNotes == (N1 :> Dir({XDat})) @@ (Notes :> File)

\* the content of an archive study directory
SageTree(path) ==
    IF path = UidDir THEN TreeNotes
    ELSE IF endswith(path, S5) THEN TreeComplete
    ELSE TreeIncomplete

TopNames == {E_PAT1, E_PAT12, E_misc}
MaxEntries == 2

\* the study directories below the listed entries: each entry holds S5, S7 or neither
StudyDirs(list) ==
    {ds \in SUBSET {Join(list[i], c) : i \in 1..Len(list), c \in {S5, S7}} :
        \A i \in 1..Len(list) : ~(Join(list[i], S5) \in ds /\ Join(list[i], S7) \in ds)}

SpectraInputs ==
    [sage_data_dir : {None, ADir},
     PatientID : {None, PAT1},
     ids : {<<S5, S7>>, <<<<"0">>, S7>>, <<<<"0">>, None>>},
     list : Listings(TopNames, MaxEntries),
     uid : {<<None, FALSE>>, <<UidDir, TRUE>>, <<UidDir, FALSE>>},
     scanRaises : BOOLEAN,
     FORCE : BOOLEAN,
     spectraDir : {EmptyTree, TreeIncomplete}]

\* the UID scan of a configured archive root completes; what the library does
\* with a root of None is not fixed: it raises or scans
SpectraInputOk(in) == in.scanRaises => in.sage_data_dir = None

\* ---------------------------------------------------------------- spectra: actions
\* Lines 278-281
SpectraGuard ==
    /\ sPc = "call"
    /\ IF SkipCopy(FORCE, spectraDir)
       THEN /\ sPc' = "returned"
            /\ sRet' = PyInt(0)
       ELSE /\ sPc' = "locate"
            /\ UNCHANGED sRet
    /\ UNCHANGED <<concVars, config, session, gatingVars, checkVars, batchVars,
                   sage, spectraDir, spectraDir0, FORCE, loc, sExc>>

\* Line 282: sageDir = self._findSpectraInSAGE()
SpectraLocate ==
    /\ sPc = "locate"
    /\ LET r == findSpectraInSAGE(config, session, sage)
       IN  /\ loc' = [called |-> TRUE, dir |-> r.dir, phase2 |-> r.phase2]
           /\ IF r.out = "raise"
              THEN sPc' = "raised" /\ sExc' = r.exc
              ELSE sPc' = "copy" /\ UNCHANGED sExc
    /\ UNCHANGED <<concVars, config, session, gatingVars, checkVars, batchVars,
                   sage, spectraDir, spectraDir0, FORCE, sRet>>

\* Lines 283-287
SpectraCopy ==
    /\ sPc = "copy"
    /\ spectraDir' = IF loc.dir # None THEN copytree(SageTree(loc.dir), spectraDir)
                     ELSE spectraDir
    /\ sRet' = SpectraReturnValue(loc.dir)
    /\ sPc' = "returned"
    /\ UNCHANGED <<concVars, config, session, gatingVars, checkVars, batchVars,
                   sage, spectraDir0, FORCE, loc, sExc>>

\* ---------------------------------------------------------------- a subject and its calls
NoLoc == [called |-> FALSE, dir |-> None, phase2 |-> FALSE]
NoSession == [StudyDate |-> None, tStart |-> None, tEnd |-> None,
              PatientID |-> None, StudyID |-> None, ScannerStudyID |-> None]
NoSage == [list |-> <<>>, dirs |-> {}, uidDir |-> None, uidIsDir |-> FALSE, scanRaises |-> FALSE]

\* Lines 61-62: physiology_data_dir and sage_data_dir as __init__ reads them
Configs ==
    {[physiology_data_dir |-> None, sage_data_dir |-> None],
     [physiology_data_dir |-> NotADir, sage_data_dir |-> None],
     [physiology_data_dir |-> ADir, sage_data_dir |-> ADir]}

\* Lines 52-63: after construction no method has run
InitSubject ==
    /\ config \in Configs
    /\ session = NoSession
    /\ gatingDir = [isdir |-> FALSE, files |-> <<>>]
    /\ physDir = {}
    /\ physDir0 = {}
    /\ gPc = "idle"
    /\ gIdx = 0
    /\ c0 = 0
    /\ gAttempted = {}
    /\ gSkipped = {}
    /\ gRet = Unset
    /\ gExc = NoExc
    /\ sage = NoSage
    /\ spectraDir = EmptyTree
    /\ spectraDir0 = EmptyTree
    /\ FORCE = FALSE
    /\ sPc = "idle"
    /\ loc = NoLoc
    /\ sRet = Unset
    /\ sExc = NoExc
    /\ cPc = "idle"
    /\ cRet = Unset
    /\ cExc = NoExc

NoBatch ==
    /\ args = [cpGating |-> FALSE, cpSpectra |-> FALSE]
    /\ subjList = <<>>
    /\ bPc = "none"
    /\ bIdx = 0
    /\ bCalled = {}

\* Line 170: copyGatingToStudy() is entered on a subject whose tags, gating
\* directory and physiological data directory are `in`
EnterGating(in) ==
    /\ GatingInputOk(in)
    /\ in.physiology_data_dir = config.physiology_data_dir
    /\ session' = [session EXCEPT !.StudyDate = in.times.StudyDate,
                                  !.tStart = in.times.tStart, !.tEnd = in.times.tEnd]
    /\ gatingDir' = [isdir |-> in.gatingIsDir, files |-> in.gatingFiles]
    /\ physDir' = in.physDir
    /\ physDir0' = in.physDir
    /\ gPc' = "call"
    /\ gIdx' = 0
    /\ c0' = 0
    /\ gAttempted' = {}
    /\ gSkipped' = {}
    /\ gRet' = Unset
    /\ gExc' = NoExc

\* Line 268: copySpectraToStudy(FORCE) is entered on a subject whose tags,
\* archive and spectra directory are `in`
EnterSpectra(in, dirs) ==
    /\ SpectraInputOk(in)
    /\ in.sage_data_dir = config.sage_data_dir
    /\ session' = [session EXCEPT !.PatientID = in.PatientID, !.StudyID = in.ids[1],
                                  !.ScannerStudyID = in.ids[2]]
    /\ sage' = [list |-> in.list, dirs |-> dirs, uidDir |-> in.uid[1], uidIsDir |-> in.uid[2],
                scanRaises |-> in.scanRaises]
    /\ spectraDir' = in.spectraDir
    /\ spectraDir0' = in.spectraDir
    /\ FORCE' = in.FORCE
    /\ sPc' = "call"
    /\ loc' = NoLoc
    /\ sRet' = Unset
    /\ sExc' = NoExc

\* Lines 169-170: the ui_method copyGatingToStudy, called on one subject
CallCopyGating ==
    /\ bPc = "none"
    /\ gPc = "idle"
    /\ \E in \in GatingInputs : EnterGating(in)
    /\ UNCHANGED <<concVars, config, spectraVars, checkVars, batchVars>>

\* Lines 267-268: the ui_method copySpectraToStudy, called on one subject
CallCopySpectra ==
    /\ bPc = "none"
    /\ sPc = "idle"
    /\ \E in \in SpectraInputs : \E dirs \in StudyDirs(in.list) : EnterSpectra(in, dirs)
    /\ UNCHANGED <<concVars, config, gatingVars, checkVars, batchVars>>

\* ---------------------------------------------------------------- completeness check
PyBool(b) == IF b THEN <<"True">> ELSE <<"False">>

\* int(iDir) returns: the names of the model are digits only, or hold a letter
IsIntName(n) == n # <<>> /\ IsDigits(n)

\* Line 298: iSub.startswith('P') and iSub.endswith('.7.PDF')
IsSpectraPDF(iSub) ==
    startswith(iSub, <<"P">>) /\ endswith(iSub, <<".", "7", ".", "P", "D", "F">>)

\* Lines 290-302: getSpectraPDF_dict.  int(iDir) raises ValueError on a name
\* that is not an integer and the handler names NameError, so the exception
\* leaves the method; os.listdir raises NotADirectoryError on an integer-named
\* file.  Which of the two comes first depends on the order of the listing.
\* A sub-series with several matching files keeps the last one listed.
getSpectraPDF_dict(tree) ==
    LET excs == {e \in {"ValueError", "NotADirectoryError"} :
                    \/ e = "ValueError" /\ \E n \in DOMAIN tree : ~IsIntName(n)
                    \/ e = "NotADirectoryError"
                         /\ \E n \in DOMAIN tree : IsIntName(n) /\ tree[n].kind = "file"}
    IN  IF excs # {} THEN [out |-> "raise", excs |-> excs, dict |-> EmptyTree]
        ELSE [out |-> "return", excs |-> {},
              dict |-> [n \in DOMAIN tree |->
                          LET pdfs == {m \in tree[n].names : IsSpectraPDF(m)}
                          IN  IF pdfs = {} THEN <<>>
                              ELSE Join(n, CHOOSE m \in pdfs : TRUE)]]

\* os.path.isfile(path) for a path below the spectra directory
isfile(tree, path) ==
    \E n \in DOMAIN tree : tree[n].kind = "dir" /\ \E m \in tree[n].names : path = Join(n, m)

isSpectraComplete_noEmptyCheck(tree) ==
    LET d == getSpectraPDF_dict(tree)
    IN  IF d.out = "raise" THEN [out |-> "raise", excs |-> d.excs, val |-> FALSE]
        ELSE [out |-> "return", excs |-> {},
              val |-> \A n \in DOMAIN d.dict : isfile(tree, d.dict[n])]

\* Lines 305-310: isSpectraComplete
isSpectraComplete(tree) ==
    IF ~hasSpectra(tree) THEN [out |-> "return", excs |-> {}, val |-> FALSE]
    ELSE LET d == getSpectraPDF_dict(tree)
         IN  IF d.out = "raise" THEN [out |-> "raise", excs |-> d.excs, val |-> FALSE]
             ELSE [out |-> "return", excs |-> {},
                   val |-> \A n \in DOMAIN d.dict : isfile(tree, d.dict[n])]

MaxSeries == 2

PLower == <<"P", "1", ".", "7", ".", "p", "d", "f">>
SeriesNames == {PyInt(i) : i \in 1..MaxSeries}
Leaves == {P1PDF, XDat, PLower}

\* spectra directories: integer-named sub-series that are directories of
\* leaves or plain files, and an entry `notes` that is a file or a directory
CheckTrees ==
    {t \in UNION {[D -> {File} \cup {Dir(S) : S \in SUBSET Leaves}] :
                     D \in SUBSET (SeriesNames \cup {Notes})} :
        Notes \in DOMAIN t => t[Notes] \in {File, Dir({})}}

\* Line 305: isSpectraComplete() is called on a subject whose spectra directory is t
CallIsSpectraComplete ==
    /\ bPc = "none"
    /\ sPc = "idle"
    /\ cPc = "idle"
    /\ \E t \in CheckTrees : spectraDir' = t /\ spectraDir0' = t
    /\ cPc' = "call"
    /\ UNCHANGED <<concVars, config, session, gatingVars, batchVars, cRet, cExc,
                   sage, FORCE, sPc, loc, sRet, sExc>>

\* Lines 305-310
IsSpectraComplete ==
    /\ cPc = "call"
    /\ LET r == isSpectraComplete(spectraDir)
       IN  IF r.out = "raise"
           THEN /\ cPc' = "raised"
                /\ cExc' \in r.excs
                /\ UNCHANGED cRet
           ELSE /\ cPc' = "returned"
                /\ cRet' = PyBool(r.val)
                /\ UNCHANGED cExc
    /\ UNCHANGED <<concVars, config, session, gatingVars, spectraVars, batchVars>>

\* ---------------------------------------------------------------- batch
MaxSessions == 2

\* Line 395: one subject per number of args.subjNList; some have no directory
SubjectLists ==
    UNION {[1..n -> [subjN : 1..n, exists : BOOLEAN]] : n \in 0..MaxSessions}

InitBatch ==
    /\ args \in {a \in [cpGating : BOOLEAN, cpSpectra : BOOLEAN] : a.cpGating \/ a.cpSpectra}
    /\ subjList \in {l \in SubjectLists : \A i \in 1..Len(l) : l[i].subjN = i}
    /\ bPc = "start"
    /\ bIdx = 0
    /\ bCalled = {}

\* Lines 408, 413: subjList.reduceToExist()
BatchReduce ==
    /\ bPc = "start"
    /\ subjList' = SelectSeq(subjList, LAMBDA s : s.exists)
    /\ bIdx' = 1
    /\ bPc' = "loop"
    /\ UNCHANGED <<concVars, config, session, gatingVars, spectraVars, checkVars, args, bCalled>>

\* Lines 407-410: iSubj.copyGatingToStudy()
BatchCallGating ==
    /\ bPc = "loop"
    /\ args.cpGating
    /\ bIdx <= Len(subjList)
    /\ \E in \in GatingInputs : EnterGating(in)
    /\ bCalled' = bCalled \cup {subjList[bIdx].subjN}
    /\ bPc' = "called"
    /\ UNCHANGED <<concVars, config, spectraVars, checkVars, args, subjList, bIdx>>

\* Lines 412-415: iSubj.copySpectraToStudy(), FORCE left at its default
BatchCallSpectra ==
    /\ bPc = "loop"
    /\ ~args.cpGating
    /\ args.cpSpectra
    /\ bIdx <= Len(subjList)
    /\ \E in \in SpectraInputs : \E dirs \in StudyDirs(in.list) :
          ~in.FORCE /\ EnterSpectra(in, dirs)
    /\ bCalled' = bCalled \cup {subjList[bIdx].subjN}
    /\ bPc' = "called"
    /\ UNCHANGED <<concVars, config, gatingVars, checkVars, args, subjList, bIdx>>

OpPc == IF args.cpGating THEN gPc ELSE sPc

\* The loop variable iSubj leaves the subject it was bound to
DropSubject ==
    /\ session' = NoSession
    /\ gatingDir' = [isdir |-> FALSE, files |-> <<>>]
    /\ physDir' = {}
    /\ physDir0' = {}
    /\ gPc' = "idle"
    /\ gIdx' = 0
    /\ c0' = 0
    /\ gAttempted' = {}
    /\ gSkipped' = {}
    /\ gRet' = Unset
    /\ gExc' = NoExc
    /\ sage' = NoSage
    /\ spectraDir' = EmptyTree
    /\ spectraDir0' = EmptyTree
    /\ FORCE' = FALSE
    /\ sPc' = "idle"
    /\ loc' = NoLoc
    /\ sRet' = Unset
    /\ sExc' = NoExc

\* Lines 409, 414: the method returned (its value is dropped), the loop takes
\* the next subject
BatchReturn ==
    /\ bPc = "called"
    /\ OpPc = "returned"
    /\ bIdx' = bIdx + 1
    /\ bPc' = "loop"
    /\ DropSubject
    /\ UNCHANGED <<concVars, config, checkVars, args, subjList, bCalled>>

\* Lines 409-415: nothing catches an exception of the method: it leaves the
\* loop and zfmrf_specific_actions
BatchRaise ==
    /\ bPc = "called"
    /\ OpPc = "raised"
    /\ bPc' = "raised"
    /\ UNCHANGED <<concVars, config, session, gatingVars, spectraVars, checkVars, args, subjList,
                   bIdx, bCalled>>

\* Lines 409, 414: the loop has no subject left
BatchEnd ==
    /\ bPc = "loop"
    /\ bIdx > Len(subjList)
    /\ bPc' = "done"
    /\ UNCHANGED <<concVars, config, session, gatingVars, spectraVars, checkVars, args, subjList,
                   bIdx, bCalled>>

\* ---------------------------------------------------------------- two subjects side by side
\* Two ZfMRFSubject objects of one data root, each running copyGatingToStudy
\* and then copySpectraToStudy; a step of one may come between any two steps
\* of the other.  Both read the same gating directory and the same spectra
\* archive; each has its own tags and its own directories.
TwoSubjects == {1, 2}

getSpectraDir_shared(i) == 1

\* Lines 218-219: <dataRoot>/<subject i>/RAW/SPECTRA, a directory of subject i
getSpectraDir(i) == i

\* Lines 165-166: <dataRoot>/<subject i>/RAW/PHYSIOLOGICAL_DATA
getPhysiologicalDataDir(i) == i

NoSubjects == [i \in {} |-> {}]

\* No pair of subjects is under way
NoConcurrent ==
    /\ subjects = NoSubjects
    /\ physDirs = NoSubjects
    /\ spectraDirs = NoSubjects
    /\ overlapped = FALSE

\* the gating directory both subjects read: MaxFiles recordings, the first
\* one listed taken during the exam
SharedListings ==
    {l \in Listings({F_SPU_in, F_ECG_in, F_atEnd}, MaxFiles) :
        Len(l) = Min(MaxFiles, 3) /\ l[1] = F_SPU_in}

\* the archive both subjects read: PAT1/S5 is there, or no study of PAT1 is
SharedArchives ==
    {[list |-> <<E_misc, E_PAT1>>, dirs |-> {Join(E_PAT1, S5)}],
     [list |-> <<E_PAT12>>, dirs |-> {Join(E_PAT12, S7)}]}

\* what differs between the subjects: the patient, the study the UID scan
\* matches, FORCE, what their directories hold already, and whether
\* shutil.copy2 into their directory fails
SubjectInputs ==
    [PatientID : {None, PAT1},
     uid : {<<None, FALSE>>, <<UidDir, TRUE>>},
     FORCE : BOOLEAN,
     spectraDir : {EmptyTree, TreeIncomplete},
     physDir : {{}, {F_nextDay}},
     copyFails : BOOLEAN]

\* each subject's UID scan is a scan of the same archive for its own UID: a
\* subject without PatientID is found by its UID, the other one is not
SubjectInputOk(in) ==
    /\ in.PatientID = None <=> in.uid[1] # None
    /\ in.copyFails => in.physDir = {}

\* the archive as subject i's _findSpectraInSAGE sees it
SageOf(sub) ==
    [list |-> sage.list, dirs |-> sage.dirs, uidDir |-> sub.uid[1], uidIsDir |-> sub.uid[2],
     scanRaises |-> FALSE]

NewSubject(in) ==
    [session |-> [StudyDate |-> GoodTimes.StudyDate, tStart |-> GoodTimes.tStart,
                  tEnd |-> GoodTimes.tEnd, PatientID |-> in.PatientID,
                  StudyID |-> S5, ScannerStudyID |-> S7],
     uid |-> in.uid, FORCE |-> in.FORCE, copyFails |-> in.copyFails,
     physDir0 |-> in.physDir, spectraDir0 |-> in.spectraDir,
     pc |-> "gCall", gIdx |-> 0, c0 |-> 0, gRet |-> Unset,
     dir |-> None, sRet |-> Unset, exc |-> NoExc]

Running(i) == subjects[i].pc \notin {"gCall", "returned", "raised"}

\* the step is taken by subject i, whose record becomes sub
StepOf(i, sub) ==
    /\ subjects' = [subjects EXCEPT ![i] = sub]
    /\ overlapped' = (overlapped \/ \E j \in TwoSubjects \ {i} : Running(j))

\* Lines 394-428 on two processes: both subjects are about to be reconciled
StartReconcile ==
    /\ bPc = "none"
    /\ gPc = "idle"
    /\ sPc = "idle"
    /\ cPc = "idle"
    /\ subjects = NoSubjects
    /\ \E ins \in [TwoSubjects -> {in \in SubjectInputs : SubjectInputOk(in)}] :
          /\ subjects' = [i \in TwoSubjects |-> NewSubject(ins[i])]
          /\ physDirs' = [i \in TwoSubjects |-> ins[i].physDir]
          /\ spectraDirs' = [i \in TwoSubjects |-> ins[i].spectraDir]
    /\ \E l \in SharedListings : gatingDir' = [isdir |-> TRUE, files |-> l]
    /\ \E a \in SharedArchives : sage' = [NoSage EXCEPT !.list = a.list, !.dirs = a.dirs]
    /\ UNCHANGED <<config, session, checkVars, batchVars, overlapped,
                   physDir, physDir0, gPc, gIdx, c0, gAttempted, gSkipped, gRet, gExc,
                   spectraDir, spectraDir0, FORCE, sPc, loc, sRet, sExc>>

\* Lines 174-194 of subject i
PGatingChecks ==
    \E i \in DOMAIN subjects :
        LET sub == subjects[i]
        IN  /\ sub.pc = "gCall"
            /\ IF \/ config.physiology_data_dir = None
                  \/ config.physiology_data_dir = NotADir
                  \/ ~gatingDir.isdir
               THEN StepOf(i, [sub EXCEPT !.pc = "sCall", !.gRet = None])
               ELSE IF ~WindowStart(sub.session).ok \/ ~WindowEnd(sub.session).ok
               THEN StepOf(i, [sub EXCEPT !.pc = "raised", !.exc = "ValueError"])
               ELSE StepOf(i, [sub EXCEPT !.pc = "gLoop", !.gIdx = 1, !.c0 = 0])
            /\ UNCHANGED <<config, session, gatingVars, spectraVars, checkVars, batchVars,
                           physDirs, spectraDirs>>

\* Lines 195-210 of subject i: one iteration of the loop
PGatingFile ==
    \E i \in DOMAIN subjects :
        LET sub == subjects[i]
            iFile == Files[sub.gIdx]
            r == ParseGatingFile(iFile)
            d == getPhysiologicalDataDir(i)
        IN  /\ sub.pc = "gLoop"
            /\ sub.gIdx <= Len(Files)
            /\ CASE r.kind = "IndexError" ->
                      /\ StepOf(i, [sub EXCEPT !.pc = "raised", !.exc = "IndexError"])
                      /\ UNCHANGED physDirs
                 [] r.kind = "ValueError" ->
                      /\ StepOf(i, [sub EXCEPT !.gIdx = @ + 1])
                      /\ UNCHANGED physDirs
                 [] /\ r.kind = "ok"
                    /\ ~InWindow(r.t, WindowStart(sub.session).t, WindowEnd(sub.session).t) ->
                      /\ StepOf(i, [sub EXCEPT !.gIdx = @ + 1])
                      /\ UNCHANGED physDirs
                 [] /\ r.kind = "ok"
                    /\ InWindow(r.t, WindowStart(sub.session).t, WindowEnd(sub.session).t) ->
                      IF sub.copyFails
                      THEN /\ StepOf(i, [sub EXCEPT !.pc = "raised", !.exc = "OSError"])
                           /\ UNCHANGED physDirs
                      ELSE /\ StepOf(i, [sub EXCEPT !.gIdx = @ + 1, !.c0 = @ + 1])
                           /\ physDirs' = [physDirs EXCEPT ![d] = @ \cup {iFile}]
            /\ UNCHANGED <<config, session, gatingVars, spectraVars, checkVars, batchVars,
                           spectraDirs>>

\* Lines 211-212 of subject i; copySpectraToStudy is next
PGatingEnd ==
    \E i \in DOMAIN subjects :
        LET sub == subjects[i]
        IN  /\ sub.pc = "gLoop"
            /\ sub.gIdx > Len(Files)
            /\ StepOf(i, [sub EXCEPT !.pc = "sCall", !.gRet = GatingReturnValue(sub.c0)])
            /\ UNCHANGED <<config, session, gatingVars, spectraVars, checkVars, batchVars,
                           physDirs, spectraDirs>>

\* Lines 278-281 of subject i
PSpectraGuard ==
    \E i \in DOMAIN subjects :
        LET sub == subjects[i]
        IN  /\ sub.pc = "sCall"
            /\ IF SkipCopy(sub.FORCE, spectraDirs[getSpectraDir(i)])
               THEN StepOf(i, [sub EXCEPT !.pc = "returned", !.sRet = PyInt(0)])
               ELSE StepOf(i, [sub EXCEPT !.pc = "sLocate"])
            /\ UNCHANGED <<config, session, gatingVars, spectraVars, checkVars, batchVars,
                           physDirs, spectraDirs>>

\* Line 282 of subject i
PSpectraLocate ==
    \E i \in DOMAIN subjects :
        LET sub == subjects[i]
            r == findSpectraInSAGE(config, sub.session, SageOf(sub))
        IN  /\ sub.pc = "sLocate"
            /\ IF r.out = "raise"
               THEN StepOf(i, [sub EXCEPT !.pc = "raised", !.exc = r.exc])
               ELSE StepOf(i, [sub EXCEPT !.pc = "sCopy", !.dir = r.dir])
            /\ UNCHANGED <<config, session, gatingVars, spectraVars, checkVars, batchVars,
                           physDirs, spectraDirs>>

\* Lines 283-287 of subject i
PSpectraCopy ==
    \E i \in DOMAIN subjects :
        LET sub == subjects[i]
            d == getSpectraDir(i)
        IN  /\ sub.pc = "sCopy"
            /\ spectraDirs' = IF sub.dir # None
                              THEN [spectraDirs EXCEPT ![d] = copytree(SageTree(sub.dir), @)]
                              ELSE spectraDirs
            /\ StepOf(i, [sub EXCEPT !.pc = "returned", !.sRet = SpectraReturnValue(sub.dir)])
            /\ UNCHANGED <<config, session, gatingVars, spectraVars, checkVars, batchVars,
                           physDirs>>

\* ---------------------------------------------------------------- specifications
InitGating == InitSubject /\ NoBatch /\ NoConcurrent

NextGating == CallCopyGating \/ GatingChecks \/ GatingFile \/ GatingEnd

SpecGating == InitGating /\ [][NextGating]_vars

InitSpectra == InitSubject /\ NoBatch /\ NoConcurrent /\ config.physiology_data_dir # NotADir

NextSpectra == CallCopySpectra \/ SpectraGuard \/ SpectraLocate \/ SpectraCopy

SpecSpectra == InitSpectra /\ [][NextSpectra]_vars

InitComplete == InitSubject /\ NoBatch /\ NoConcurrent /\ config.sage_data_dir = ADir

NextComplete == CallIsSpectraComplete \/ IsSpectraComplete

SpecComplete == InitComplete /\ [][NextComplete]_vars

InitActions == InitSubject /\ InitBatch /\ NoConcurrent

NextActions ==
    \/ BatchReduce
    \/ BatchCallGating
    \/ BatchCallSpectra
    \/ GatingChecks
    \/ GatingFile
    \/ GatingEnd
    \/ SpectraGuard
    \/ SpectraLocate
    \/ SpectraCopy
    \/ BatchReturn
    \/ BatchRaise
    \/ BatchEnd

SpecActions == InitActions /\ [][NextActions]_vars

InitConcurrent ==
    /\ InitSubject
    /\ NoBatch
    /\ NoConcurrent
    /\ config = [physiology_data_dir |-> ADir, sage_data_dir |-> ADir]

NextConcurrent ==
    \/ StartReconcile
    \/ PGatingChecks
    \/ PGatingFile
    \/ PGatingEnd
    \/ PSpectraGuard
    \/ PSpectraLocate
    \/ PSpectraCopy

SpecConcurrent == InitConcurrent /\ [][NextConcurrent]_vars

\* ---------------------------------------------------------------- properties: gating
\* the timestamp of a file name and the scan window, read off the model's inputs
Stamped(f) == ParseGatingFile(f).kind = "ok"
T1 == WindowStart(session).t
T2 == WindowEnd(session).t
StrictlyInside(f) == Stamped(f) /\ DtLess(T1, ParseGatingFile(f).t) /\ DtLess(ParseGatingFile(f).t, T2)
Listed == {Files[i] : i \in 1..Len(Files)}
\* the loop has finished the iteration of Files[i]
Examined(i) == gPc \in {"loop", "returned", "raised"} /\ i < gIdx
GatingDone == gPc = "returned" /\ gRet # None

\* C1: every gating file name that parses to a valid timestamp is selected
\* (handed to the copy into the physiological data directory) if and only if
\* its timestamp lies strictly between windowStart and windowEnd: no file is
\* ever selected unless it lies strictly inside, a file at windowStart, at
\* windowEnd or outside is never selected, every file the scan has examined
\* that lies strictly inside is selected, and a scan that returns leaves the
\* destination holding exactly the files strictly inside on top of what it held.
C1_SelectedIffStrictlyInside ==
    /\ \A f \in gAttempted : f \in Listed /\ StrictlyInside(f)
    /\ \A f \in physDir \ physDir0 : StrictlyInside(f)
    /\ \A i \in 1..Len(Files) :
          (Examined(i) /\ StrictlyInside(Files[i])) => Files[i] \in gAttempted
    /\ GatingDone =>
          /\ gAttempted = {f \in Listed : StrictlyInside(f)}
          /\ physDir = physDir0 \cup {f \in Listed : StrictlyInside(f)}

\* C1 witness: a scan returned over a file stamped exactly windowStart, which
\* it left out, and a file inside the window, which it copied
C1_Witness ==
    /\ GatingDone
    /\ F_atStart \in Listed
    /\ F_atStart \notin physDir
    /\ F_SPU_in \in gAttempted
    /\ F_SPU_in \in physDir

\* C2: the gating scan never raises for a malformed file name: a name with too
\* few `_`-delimited parts is logged and skipped like any unparsable name, and
\* the files after it are still examined.
C2_MalformedNameNeverRaises ==
    /\ gExc # "IndexError"
    /\ \A i \in 1..Len(Files) :
          (Examined(i) /\ ~Stamped(Files[i])) => Files[i] \in gSkipped

\* C8: a failed copy of one matched file does not stop the scan: once the call
\* has ended, every listed file whose timestamp lies in the window has been
\* handed to the copy, also when an earlier copy failed.
C8_CopyFailureDoesNotStopTheRest ==
    (gPc \in {"returned", "raised"} /\ gExc = "OSError") =>
        \A f \in Listed : StrictlyInside(f) => f \in gAttempted

\* C9 as stated: the value copyGatingToStudy returns is the number of files it
\* copied in that call.
C9_ReturnsNumberCopied ==
    GatingDone => gRet = PyInt(Cardinality(physDir \ physDir0))

\* C9 as amended: a gating copy that completes its scan returns 0 whatever the
\* number of files it copied; that number is the running count c0, which
\* equals the number of files written to the destination in the call.
C9_ReturnsZeroAndCountsCopies ==
    GatingDone =>
        /\ gRet = PyInt(0)
        /\ c0 = Cardinality(gAttempted)
        /\ c0 = Cardinality(physDir \ physDir0)

\* C9 witness: a scan returned after copying one file
C9_Witness == GatingDone /\ c0 = 1 /\ Cardinality(physDir \ physDir0) = 1

\* ---------------------------------------------------------------- properties: spectra
\* the directories entry/effectiveStudyID below an entry whose name contains the
\* patient ID, read off the archive
Phase1Dirs ==
    IF session.PatientID = None \/ EffectiveStudyID(session) = None THEN {}
    ELSE {d \in sage.dirs :
            \E i \in 1..Len(sage.list) :
                /\ Contains(sage.list[i], session.PatientID)
                /\ d = Join(sage.list[i], EffectiveStudyID(session))}
UidMatch == sage.uidDir # None /\ sage.uidIsDir
CopyAttempted == FORCE \/ spectraDir0 = EmptyTree
SpectraEntered == sPc \in {"locate", "copy", "returned", "raised"}

\* C3: whenever phase 1 finds a directory entry/effectiveStudyID under an entry
\* whose name contains the patient ID, the locator returns that directory (the
\* first one in listing order), the UID scan of phase 2 is not started in that
\* call, and the copy takes that directory, also when phase 2 would have
\* matched another directory; phase 2 starts only when no such directory exists.
C3_Phase1Preferred ==
    /\ loc.phase2 => Phase1Dirs = {}
    /\ (loc.called /\ config.sage_data_dir # None /\ Phase1Dirs # {}) =>
          /\ sPc # "raised"
          /\ loc.dir \in Phase1Dirs
          /\ \A i \in 1..Len(sage.list) :
                Join(sage.list[i], EffectiveStudyID(session)) = loc.dir =>
                    \A j \in 1..(i - 1) :
                        Join(sage.list[j], EffectiveStudyID(session)) \notin Phase1Dirs
          /\ sPc = "returned" => spectraDir = copytree(SageTree(loc.dir), spectraDir0)

\* C3 witness: the call returned a phase 1 directory while the UID scan would
\* have matched another directory
C3_Witness ==
    /\ sPc = "returned"
    /\ loc.called
    /\ loc.dir \in Phase1Dirs
    /\ UidMatch
    /\ sage.uidDir # loc.dir

\* C4: copySpectraToStudy with FORCE false on a non-empty spectra directory
\* returns 0, leaves the directory as it was and does not call the locator,
\* whatever the archive root and the archive hold.
C4_NoForceNonEmptyIsNoOp ==
    (SpectraEntered /\ ~FORCE /\ spectraDir0 # EmptyTree) =>
        /\ sPc = "returned"
        /\ sRet = PyInt(0)
        /\ spectraDir = spectraDir0
        /\ ~loc.called

\* C4 witness: such a call returned with the archive root unset
C4_Witness ==
    /\ sPc = "returned"
    /\ ~FORCE
    /\ spectraDir0 # EmptyTree
    /\ config.sage_data_dir = None

\* C10: copySpectraToStudy returns 1 exactly when the copy was attempted (FORCE
\* or an empty destination) and the locator returned no directory, and then the
\* destination is as it was; the locator returns no directory only after phase 1
\* found no directory and phase 2 ran and resolved none.
C10_FailureIffNoSource ==
    /\ sPc = "returned" =>
          /\ sRet = PyInt(1) <=> (CopyAttempted /\ loc.called /\ loc.dir = None)
          /\ sRet = PyInt(1) => spectraDir = spectraDir0
          /\ sRet \in {PyInt(0), PyInt(1)}
    /\ (sPc \in {"copy", "returned"} /\ loc.called /\ loc.dir = None) =>
          /\ Phase1Dirs = {}
          /\ loc.phase2
          /\ ~UidMatch

\* C10 witness: a forced copy onto a non-empty destination found no source
C10_Witness ==
    /\ sPc = "returned"
    /\ sRet = PyInt(1)
    /\ FORCE
    /\ spectraDir0 # EmptyTree
    /\ loc.phase2

\* C6: with physiology_data_dir unset copyGatingToStudy, and with sage_data_dir
\* unset copySpectraToStudy once past its FORCE/hasSpectra guard, return a
\* failure code without raising and leave the destination as it was.  (Stated
\* in the code's favour: an exception that the archive library raises on a
\* root of None is not counted, only one raised by the method's own statements.)
C6_UnsetRootReturnsFailure ==
    /\ (config.physiology_data_dir = None /\ gPc \in {"loop", "returned", "raised"}) =>
          /\ gPc = "returned"
          /\ gRet # PyInt(0)
          /\ physDir = physDir0
    /\ (config.sage_data_dir = None /\ sPc \in {"copy", "returned", "raised"}
            /\ CopyAttempted /\ sExc # "LibraryError") =>
          /\ sPc # "raised"
          /\ spectraDir = spectraDir0

\* ---------------------------------------------------------------- properties: completeness
SeriesDirs == {n \in DOMAIN spectraDir : IsIntName(n) /\ spectraDir[n].kind = "dir"}
HasDocument(n) ==
    \E m \in spectraDir[n].names :
        /\ Len(m) >= 7
        /\ m[1] = "P"
        /\ SubSeq(m, Len(m) - 5, Len(m)) = <<".", "7", ".", "P", "D", "F">>

\* C5: isSpectraComplete returns False on an empty spectra directory (and never
\* raises there); a value it returns is False when an integer-named sub-series
\* directory holds no file P*.7.PDF, and is True only when the directory is
\* not empty and every integer-named sub-series directory holds such a file;
\* on a directory of integer-named sub-series directories that all hold one,
\* it returns True.
C5_CompleteIffEveryDocument ==
    /\ (cPc \in {"returned", "raised"} /\ spectraDir = EmptyTree) =>
          cPc = "returned" /\ cRet = PyBool(FALSE)
    /\ (cPc = "returned" /\ \E n \in SeriesDirs : ~HasDocument(n)) => cRet = PyBool(FALSE)
    /\ (cPc = "returned" /\ cRet = PyBool(TRUE)) =>
          /\ spectraDir # EmptyTree
          /\ \A n \in SeriesDirs : HasDocument(n)
    /\ (cPc \in {"returned", "raised"} /\ spectraDir # EmptyTree
            /\ SeriesDirs = DOMAIN spectraDir /\ \A n \in SeriesDirs : HasDocument(n)) =>
          cPc = "returned" /\ cRet = PyBool(TRUE)

\* C5 witness: the check returned False on two sub-series of which one holds
\* its document and the other does not
C5_Witness ==
    /\ cPc = "returned"
    /\ cRet = PyBool(FALSE)
    /\ Cardinality(SeriesDirs) = 2
    /\ \E n \in SeriesDirs : HasDocument(n)
    /\ \E n \in SeriesDirs : ~HasDocument(n)

\* C11: an entry of the spectra directory whose name is no integer is ignored
\* by the completeness check: when every integer-named entry is a directory
\* and some other entry is listed, isSpectraComplete returns rather than
\* raises, and the value it returns is the one the integer-named sub-series
\* directories alone decide.
C11_NonIntegerEntryIgnored ==
    (/\ cPc \in {"returned", "raised"}
     /\ \E n \in DOMAIN spectraDir : ~IsIntName(n)
     /\ \A n \in DOMAIN spectraDir : IsIntName(n) => spectraDir[n].kind = "dir") =>
        /\ cPc = "returned"
        /\ cRet = PyBool(\A n \in SeriesDirs : HasDocument(n))

\* ---------------------------------------------------------------- properties: batch
\* C7: a batch over several subjects calls the copy method of every existing
\* subject of the list: once zfmrf_specific_actions has ended, no subject was
\* left out because an earlier one failed.
C7_EverySubjectAttempted ==
    bPc \in {"done", "raised"} =>
        \A i \in 1..Len(subjList) : subjList[i].subjN \in bCalled

\* ---------------------------------------------------------------- properties: two subjects
\* copyGatingToStudy's loop (lines 195-212) run from start to end by one
\* subject with nothing in between
RECURSIVE GatingLoopAlone(_, _, _, _)
GatingLoopAlone(files, sub, phys, c) ==
    IF files = <<>>
    THEN [pc |-> "sCall", exc |-> NoExc, gRet |-> GatingReturnValue(c), phys |-> phys]
    ELSE LET r == ParseGatingFile(Head(files))
         IN  IF r.kind = "IndexError"
             THEN [pc |-> "raised", exc |-> "IndexError", gRet |-> Unset, phys |-> phys]
             ELSE IF r.kind = "ValueError"
                     \/ ~InWindow(r.t, WindowStart(sub.session).t, WindowEnd(sub.session).t)
             THEN GatingLoopAlone(Tail(files), sub, phys, c)
             ELSE IF sub.copyFails
             THEN [pc |-> "raised", exc |-> "OSError", gRet |-> Unset, phys |-> phys]
             ELSE GatingLoopAlone(Tail(files), sub, phys \cup {Head(files)}, c + 1)

\* copyGatingToStudy (170-212) and then copySpectraToStudy (268-287) run by
\* the subject alone on the directories it started with: where it ends, what
\* it returns and what its two directories hold
ReconcileAlone(sub) ==
    LET g == IF \/ config.physiology_data_dir = None
                \/ config.physiology_data_dir = NotADir
                \/ ~gatingDir.isdir
             THEN [pc |-> "sCall", exc |-> NoExc, gRet |-> None, phys |-> sub.physDir0]
             ELSE IF ~WindowStart(sub.session).ok \/ ~WindowEnd(sub.session).ok
             THEN [pc |-> "raised", exc |-> "ValueError", gRet |-> Unset,
                   phys |-> sub.physDir0]
             ELSE GatingLoopAlone(gatingDir.files, sub, sub.physDir0, 0)
        r == findSpectraInSAGE(config, sub.session, SageOf(sub))
    IN  IF g.pc = "raised"
        THEN [pc |-> "raised", exc |-> g.exc, gRet |-> Unset, sRet |-> Unset,
              phys |-> g.phys, spectra |-> sub.spectraDir0]
        ELSE IF SkipCopy(sub.FORCE, sub.spectraDir0)
        THEN [pc |-> "returned", exc |-> NoExc, gRet |-> g.gRet, sRet |-> PyInt(0),
              phys |-> g.phys, spectra |-> sub.spectraDir0]
        ELSE IF r.out = "raise"
        THEN [pc |-> "raised", exc |-> r.exc, gRet |-> g.gRet, sRet |-> Unset,
              phys |-> g.phys, spectra |-> sub.spectraDir0]
        ELSE [pc |-> "returned", exc |-> NoExc, gRet |-> g.gRet,
              sRet |-> SpectraReturnValue(r.dir), phys |-> g.phys,
              spectra |-> IF r.dir # None THEN copytree(SageTree(r.dir), sub.spectraDir0)
                          ELSE sub.spectraDir0]

Finished(i) == subjects[i].pc \in {"returned", "raised"}

\* C12: two subjects with their own directories are reconciled side by side
\* against the same gating directory and the same archive.  However their
\* steps interleave, a subject that has finished ended where it would have
\* ended alone: same outcome (returned or raised, and the exception), same
\* return values of copyGatingToStudy and copySpectraToStudy, and the same
\* content of its physiological data directory and of its spectra directory.
C12_ConcurrentEqualsAlone ==
    \A i \in DOMAIN subjects :
        Finished(i) =>
            LET a == ReconcileAlone(subjects[i])
            IN  /\ subjects[i].pc = a.pc
                /\ subjects[i].exc = a.exc
                /\ subjects[i].gRet = a.gRet
                /\ subjects[i].sRet = a.sRet
                /\ physDirs[i] = a.phys
                /\ spectraDirs[i] = a.spectra

\* C12 witness: both subjects have finished after steps of one came between
\* steps of the other, each has copied a gating file and a spectra tree into
\* its own directories, and the two trees came from different archive
\* directories
C12_Witness ==
    /\ DOMAIN subjects = TwoSubjects
    /\ overlapped
    /\ \A i \in TwoSubjects :
          /\ subjects[i].pc = "returned"
          /\ physDirs[i] # subjects[i].physDir0
          /\ spectraDirs[i] # subjects[i].spectraDir0
    /\ subjects[1].dir # subjects[2].dir
    /\ spectraDirs[1] # spectraDirs[2]

====
